---- MODULE Spec2Model ----
(***************************************************************************)
(* A model of kopf/reactor/activities.py: the batch runner run_activity,   *)
(* the single-shot authenticate and the endless authenticator loop.        *)
(*                                                                         *)
(* run_activity, authenticate, authenticator and ActivityError are         *)
(* translated from activities.py.  The collaborators they import (the      *)
(* State of kopf.reactor.states, execute_handlers_once of                  *)
(* kopf.reactor.handling, the all_at_once lifecycle, the Vault of          *)
(* kopf.structs.credentials) are modelled from their documented contract.  *)
(*                                                                         *)
(* Every coroutine is cut at its await points: one action runs from one    *)
(* suspension point to the next.  Time is counted in whole units from the  *)
(* start of a batch and passes only in the inter-pass sleep: a pass itself *)
(* takes no time.                                                          *)
(***************************************************************************)
EXTENDS Integers, Sequences, FiniteSets

\* ------------------------------------------------------------- bounds

\* Number of handler ids the registry can hold for the activity.
MaxHandlers == 2
\* Temporary failures in one batch, over all of its handlers: once they
\* are used up, every invocation ends in a success or a permanent failure.
MaxRetries == 2
\* Largest retry delay a temporary failure requests (0 = retry at once).
MaxDelay == 3
\* Number of batches the authenticator starts before the model stops it.
MaxBatches == 2
\* Number of API clients that use the vault.
MaxClients == 2

\* ------------------------------------------------------ program values

\* handling.WAITING_KEEPALIVE_INTERVAL, the cap of the inter-pass sleep,
\* scaled down to the model's time unit.
WAITING_KEEPALIVE_INTERVAL == 2

\* Python's None, in each of the three places an outcome can hold it.
NoDelay == -1
NoResult == 0
NoException == <<>>

HandlerIds == 1 .. MaxHandlers
Delays == 0 .. MaxDelay
Clients == 1 .. MaxClients

\* The credentials handler h retrieves: an opaque payload, told apart from
\* the other handlers' by the handler that produced it.
Credentials(h) == h

VARIABLES
    handlers,          \* registry.activity_handlers.get_handlers(activity)
    vault,             \* the Vault: key -> credentials, the valid entries
    counter,           \* authenticator's counter
    pc,                \* where the authenticator task is suspended
    state,             \* run_activity's state (a states.State)
    outcomes,          \* run_activity's outcomes (an insertion-ordered dict)
    now,               \* the clock, counted from the start of the batch
    limited_delay,     \* the duration of the sleep being awaited
    activity_results,  \* what run_activity returned to authenticate
    error,             \* the ActivityError that escaped, if any
    tries,             \* invocations of each handler in this batch
    retries,           \* temporary failures in this batch
    latest,            \* the last outcome each handler produced in it
    passes,            \* calls of execute_handlers_once in this batch
    sleeps,            \* sleeps issued in this batch
    overlong,          \* those of them whose delay exceeded the cap
    started,           \* batches started so far
    populated,         \* calls of vault.populate so far
    waiting            \* the clients blocked until the vault has credentials

vars == <<handlers, vault, counter, pc, state, outcomes, now, limited_delay,
          activity_results, error, tries, retries, latest, passes, sleeps,
          overlong, started, populated, waiting>>

\* ------------------------------------------------------------ helpers

Min(a, b) == IF a <= b THEN a ELSE b

Max(a, b) == IF a >= b THEN a ELSE b

SetMin(S) == CHOOSE x \in S : \A y \in S : x <= y

Range(s) == {s[i] : i \in DOMAIN s}

\* What the registry can hold for the activity: n handlers, named by
\* their place in it. (Handlers differ in nothing but their name, so that
\* every other naming gives the same runs up to renaming.)
Registries == {[i \in 1 .. n |-> i] : n \in 0 .. MaxHandlers}

\* ------------------------------------------- outcomes (states.HandlerOutcome)

\* A handler returned r (NoResult for a handler that returns nothing).
Success(r) ==
    [final |-> TRUE, delay |-> NoDelay, result |-> r, exception |-> NoException]

\* A handler raised a retryable error asking for a retry after d.
Temporary(d, e) ==
    [final |-> FALSE, delay |-> d, result |-> NoResult, exception |-> e]

\* A handler raised any other error.
Permanent(e) ==
    [final |-> TRUE, delay |-> NoDelay, result |-> NoResult, exception |-> e]

\* A handler that was not invoked yet has no outcome.
Pending ==
    [final |-> FALSE, delay |-> NoDelay, result |-> NoResult,
     exception |-> NoException]

\* The exception handler h raises in pass p: every raise is a new object.
Raised(h, p) == <<h, p>>

\* What an invocation of handler h can produce in pass p: it returns its
\* credentials or nothing, or raises a permanent or a temporary error.
HandlerOutcomes(h, p) ==
    {Success(NoResult), Success(Credentials(h)), Permanent(Raised(h, p))}
    \cup {Temporary(d, Raised(h, p)) : d \in Delays}

\* The temporary failures among the outcomes of a mapping h -> outcome.
Retries(f) == Cardinality({h \in DOMAIN f : ~f[h].final})

\* ------------------------------------------------- state (states.State)

\* Python's None for the time a handler is delayed until.
NoTime == -1

\* State.from_scratch: every handler pending.
FromScratch(hs) ==
    [h \in Range(hs) |-> [finished |-> FALSE, delayed |-> NoTime]]

\* The ids of a pass's outcome mapping.
Ids(cur) == {cur[i].id : i \in DOMAIN cur}

\* The outcome the mapping cur holds for h.
OutcomeOf(cur, h) == (CHOOSE i \in DOMAIN cur : cur[i].id = h)

\* State.with_outcomes: the handlers named in cur are overwritten, the
\* others keep their entry. A requested delay becomes a time to wake at.
WithOutcomes(st, cur, clock) ==
    [h \in DOMAIN st |->
        IF h \in Ids(cur)
        THEN LET o == cur[OutcomeOf(cur, h)].outcome
             IN  [finished |-> o.final,
                  delayed |-> IF o.delay = NoDelay THEN NoTime
                              ELSE clock + o.delay]
        ELSE st[h]]

\* State.done: every handler is finished.
Done(st) == \A h \in DOMAIN st : st[h].finished

\* State.delay: the time left until the soonest delayed handler wakes, or
\* None when no handler waits for a retry.
Delay(st, clock) ==
    LET times == {st[h].delayed : h \in {x \in DOMAIN st :
                      ~st[x].finished /\ st[x].delayed # NoTime}}
    IN  IF times = {} THEN NoDelay ELSE Max(0, SetMin(times) - clock)

\* lifecycles.all_at_once over the handlers that are awake: every handler
\* that is pending, or failed temporarily and whose delay has elapsed.
AllAtOnce(st, clock) ==
    {h \in DOMAIN st :
        ~st[h].finished /\ (st[h].delayed = NoTime \/ st[h].delayed <= clock)}

\* The handlers of hs that a pass invokes, in the order of hs.
Selected(hs, st, clock) == SelectSeq(hs, LAMBDA h : h \in AllAtOnce(st, clock))

\* ------------------------------------------------ vault (credentials.Vault)

\* The vault is the mapping key -> credentials of its valid entries; an
\* entry that is invalidated leaves it. It is empty when it holds none.
IsEmpty(v) == DOMAIN v = {}

\* Vault.populate: the contents become the given entries, all valid.
Populate(entries) == entries

\* Invalidation of the entry under key k.
Invalidated(v, k) == [x \in DOMAIN v \ {k} |-> v[x]]

\* str(handler_id): the key a handler's credentials are stored under.
Str(h) == <<"id", h>>

\* The key of a credential that no handler of the registry produced.
ForeignKey == Str(0)

\* ----------------------------------------------------------- run_activity

\* As UpdateOutcomes, but the outcomes of the pass take the place of the
\* accumulated ones (an assignment in place of update).
UpdateOutcomes_Replace(outs, cur) == cur

\* As UpdateOutcomes, but a key already present keeps its old value
\* (setdefault in place of update).
RECURSIVE UpdateOutcomes_KeepFirst(_, _)
UpdateOutcomes_KeepFirst(outs, cur) ==
    IF cur = <<>> THEN outs
    ELSE LET c == Head(cur)
             merged == IF c.id \in Ids(outs) THEN outs ELSE Append(outs, c)
         IN  UpdateOutcomes_KeepFirst(merged, Tail(cur))

\* outcomes.update(current_outcomes) on an insertion-ordered dict: a key
\* already present keeps its place and takes the new value, a new key is
\* appended.
RECURSIVE UpdateOutcomes(_, _)
UpdateOutcomes(outs, cur) ==
    IF cur = <<>> THEN outs
    ELSE LET c == Head(cur)
             merged ==
                 IF c.id \in Ids(outs)
                 THEN [i \in DOMAIN outs |->
                          IF outs[i].id = c.id THEN c ELSE outs[i]]
                 ELSE Append(outs, c)
         IN  UpdateOutcomes(merged, Tail(cur))

\* As LoopContinues, but the loop runs for as long as there are handlers.
LoopContinues_WhileHandlers(st) == DOMAIN st # {}

\* As LoopContinues, but a state without handlers counts as not done.
LoopContinues_Unstarted(st) == ~Done(st) \/ DOMAIN st = {}

\* `while not state.done`
LoopContinues(st) == ~Done(st)

\* As Truthy, but testing `delay is not None`.
Truthy_NotNone(delay) == delay # NoDelay

\* `if delay:` is false for None and for 0.
Truthy(delay) == delay # NoDelay /\ delay # 0

\* As LimitedDelay, but without the cap.
LimitedDelay_Uncapped(delay) == delay

\* min(delay, handling.WAITING_KEEPALIVE_INTERVAL)
LimitedDelay(delay) == Min(delay, WAITING_KEEPALIVE_INTERVAL)

\* The exceptions of the outcomes, in the order of outcomes.values().
Exceptions(outs) ==
    SelectSeq([i \in DOMAIN outs |-> outs[i].outcome.exception],
              LAMBDA e : e # NoException)

\* As ActivityError, but carrying the failed handlers' outcomes only.
ActivityError_OnlyFailed(outs) ==
    [raised |-> TRUE,
     outcomes |-> SelectSeq(outs, LAMBDA o : o.outcome.exception # NoException),
     cause |-> Exceptions(outs)[1]]

\* As ActivityError, but raised from the last exception of the list.
ActivityError_LastCause(outs) ==
    [raised |-> TRUE, outcomes |-> outs,
     cause |-> Exceptions(outs)[Len(Exceptions(outs))]]

\* ActivityError(..., outcomes=outcomes) from exceptions[0]
ActivityError(outs) ==
    [raised |-> TRUE, outcomes |-> outs, cause |-> Exceptions(outs)[1]]

\* No ActivityError is in flight.
NoError == [raised |-> FALSE, outcomes |-> <<>>, cause |-> NoException]

\* As Results, but without the filter on absent results.
Results_Unfiltered(outs) ==
    [h \in Ids(outs) |-> outs[OutcomeOf(outs, h)].outcome.result]

\* As Results, but with the filter on absent results inverted.
Results_Inverted(outs) ==
    LET with == {i \in DOMAIN outs : outs[i].outcome.result = NoResult}
    IN  [h \in {outs[i].id : i \in with} |->
            outs[OutcomeOf(outs, h)].outcome.result]

\* The results of the handlers whose outcome has one.
Results(outs) ==
    LET with == {i \in DOMAIN outs : outs[i].outcome.result # NoResult}
    IN  [h \in {outs[i].id : i \in with} |->
            outs[OutcomeOf(outs, h)].outcome.result]

\* ----------------------------------------------------------- authenticate

\* As Escapes, but the error is caught and the results at hand are used.
Escapes_Caught(e) == FALSE

\* Neither authenticate nor authenticator wraps the awaited call in a
\* try: an ActivityError raised by run_activity leaves both.
Escapes(e) == e.raised

\* As MayStart, but without the wait for the vault to be empty.
MayStart_NoWait(v) == TRUE

\* `await vault.wait_for_emptiness()` before anything else: authenticate
\* goes on when the vault is empty.
MayStart(v) == IsEmpty(v)

\* As Idle, but authenticate is started without being awaited.
Idle_NotAwaited(p) == p \in {"wait", "tick", "sleep", "populate"}

\* `await authenticate(...)` in the loop of authenticator: the next call is
\* made when the one before has returned.
Idle(p) == p = "wait"

\* As PopulateArg, but keyed by the handler ids as they are.
PopulateArg_NotStringified(results) ==
    [k \in {<<"handler", h>> : h \in DOMAIN results} |-> results[k[2]]]

\* {str(handler_id): info for handler_id, info in activity_results.items()}
PopulateArg(results) ==
    [k \in {Str(h) : h \in DOMAIN results} |-> results[k[2]]]

\* ---------------------------------------------------------------- actions

Init ==
    /\ handlers \in Registries
    /\ vault \in {<<>>, [k \in {ForeignKey} |-> Credentials(0)]}
    /\ counter = IF IsEmpty(vault) THEN 0 ELSE 1
    /\ pc = "wait"
    /\ state = <<>>
    /\ outcomes = <<>>
    /\ now = 0
    /\ limited_delay = 0
    /\ activity_results = <<>>
    /\ error = NoError
    /\ tries = [h \in Range(handlers) |-> 0]
    /\ retries = 0
    /\ latest = [h \in Range(handlers) |-> Pending]
    /\ passes = 0
    /\ sleeps = 0
    /\ overlong = 0
    /\ started = 0
    /\ populated = 0
    /\ waiting = {}

\* run_activity from the loop test on, with state st and outcomes outs:
\* either the next pass is awaited, or the loop is left and run_activity
\* raises or returns to authenticate, which goes on to populate.
Resume(st, outs) ==
    IF LoopContinues(st)
    THEN /\ pc' = "tick"
         /\ activity_results' = <<>>
         /\ error' = NoError
    ELSE IF Exceptions(outs) # <<>> /\ Escapes(ActivityError(outs))
    THEN /\ pc' = "raised"
         /\ activity_results' = <<>>
         /\ error' = ActivityError(outs)
    ELSE /\ pc' = "populate"
         /\ activity_results' = Results(outs)
         /\ error' = NoError

\* vault.wait_for_emptiness() returns and run_activity starts.
StartBatch ==
    /\ Idle(pc)
    /\ MayStart(vault)
    /\ started < MaxBatches
    /\ state' = FromScratch(handlers)
    /\ outcomes' = <<>>
    /\ now' = 0
    /\ tries' = [h \in Range(handlers) |-> 0]
    /\ retries' = 0
    /\ latest' = [h \in Range(handlers) |-> Pending]
    /\ passes' = 0
    /\ sleeps' = 0
    /\ overlong' = 0
    /\ started' = started + 1
    /\ Resume(state', outcomes')
    /\ UNCHANGED <<handlers, vault, counter, limited_delay, populated, waiting>>

\* One pass: execute_handlers_once returns the outcomes of the handlers
\* the lifecycle selected, in the order of the registry; they are merged
\* into outcomes and state, and the delay decides between sleeping and
\* the loop test.
Pass ==
    /\ pc = "tick"
    /\ \E produced \in [AllAtOnce(state, now) ->
                           UNION {HandlerOutcomes(h, passes + 1) :
                                      h \in HandlerIds}] :
          /\ \A h \in DOMAIN produced :
                produced[h] \in HandlerOutcomes(h, passes + 1)
          /\ retries + Retries(produced) <= MaxRetries
          /\ LET order == Selected(handlers, state, now)
                 current_outcomes ==
                     [i \in DOMAIN order |->
                         [id |-> order[i], outcome |-> produced[order[i]]]]
                 delay == Delay(state', now)
             IN  /\ outcomes' = UpdateOutcomes(outcomes, current_outcomes)
                 /\ state' = WithOutcomes(state, current_outcomes, now)
                 /\ tries' =
                        [h \in DOMAIN tries |->
                            IF h \in DOMAIN produced THEN tries[h] + 1
                            ELSE tries[h]]
                 /\ retries' = retries + Retries(produced)
                 /\ latest' =
                        [h \in DOMAIN latest |->
                            IF h \in DOMAIN produced THEN produced[h]
                            ELSE latest[h]]
                 /\ passes' = passes + 1
                 /\ IF Truthy(delay)
                    THEN /\ pc' = "sleep"
                         /\ limited_delay' = LimitedDelay(delay)
                         /\ sleeps' = sleeps + 1
                         /\ overlong' =
                                IF delay > WAITING_KEEPALIVE_INTERVAL
                                THEN overlong + 1 ELSE overlong
                         /\ UNCHANGED <<activity_results, error>>
                    ELSE /\ Resume(state', outcomes')
                         /\ UNCHANGED <<limited_delay, sleeps, overlong>>
    /\ UNCHANGED <<handlers, vault, counter, now, started, populated, waiting>>

\* sleeping.sleep_or_wait(limited_delay, asyncio.Event()) returns: the
\* event is never set, so the whole of limited_delay has passed.
Sleep ==
    /\ pc = "sleep"
    /\ now' = now + limited_delay
    /\ Resume(state, outcomes)
    /\ UNCHANGED <<handlers, vault, counter, state, outcomes, limited_delay,
                   tries, retries, latest, passes, sleeps, overlong, started,
                   populated, waiting>>

\* vault.populate(...) with the re-keyed results, which wakes the clients
\* that wait for credentials when there are any now; authenticate returns
\* and authenticator counts the iteration and calls authenticate again.
PopulateVault ==
    /\ pc = "populate"
    /\ vault' = Populate(PopulateArg(activity_results))
    /\ counter' = counter + 1
    /\ populated' = populated + 1
    /\ pc' = "wait"
    /\ waiting' = IF IsEmpty(vault') THEN waiting ELSE {}
    /\ UNCHANGED <<handlers, state, outcomes, now, limited_delay,
                   activity_results, error, tries, retries, latest, passes,
                   sleeps, overlong, started>>

\* A client of the vault reports a credential as rejected.
Invalidate ==
    /\ \E k \in DOMAIN vault : vault' = Invalidated(vault, k)
    /\ UNCHANGED <<handlers, counter, pc, state, outcomes, now, limited_delay,
                   activity_results, error, tries, retries, latest, passes,
                   sleeps, overlong, started, populated, waiting>>

\* The authenticator task is cancelled at one of its suspension points.
Cancel ==
    /\ pc \in {"wait", "tick", "sleep", "populate"}
    /\ pc' = "cancelled"
    /\ UNCHANGED <<handlers, vault, counter, state, outcomes, now,
                   limited_delay, activity_results, error, tries, retries,
                   latest, passes, sleeps, overlong, started, populated,
                   waiting>>

Next ==
    \/ StartBatch
    \/ Pass
    \/ Sleep
    \/ PopulateVault
    \/ Invalidate
    \/ Cancel

Spec == Init /\ [][Next]_vars

\* ------------------------------------------------- the clients of the vault

\* Client c has a request rejected and invalidates the credentials it
\* used; when none are left it blocks until the vault is populated.
ClientInvalidate(c) ==
    /\ c \notin waiting
    /\ \E k \in DOMAIN vault : vault' = Invalidated(vault, k)
    /\ waiting' = IF IsEmpty(vault') THEN waiting \cup {c} ELSE waiting
    /\ UNCHANGED <<handlers, counter, pc, state, outcomes, now, limited_delay,
                   activity_results, error, tries, retries, latest, passes,
                   sleeps, overlong, started, populated>>

\* Client c invalidates credentials that have left the vault already: the
\* vault is empty and stays so, and the client blocks.
ClientFindsEmpty(c) ==
    /\ c \notin waiting
    /\ IsEmpty(vault)
    /\ waiting' = waiting \cup {c}
    /\ UNCHANGED <<handlers, vault, counter, pc, state, outcomes, now,
                   limited_delay, activity_results, error, tries, retries,
                   latest, passes, sleeps, overlong, started, populated>>

\* The authenticator with a registry of one handler at most (the clients
\* see a batch through the vault only), and the clients.
InitClients == Init /\ Len(handlers) <= 1

NextClients ==
    \/ Next
    \/ \E c \in Clients : ClientInvalidate(c)
    \/ \E c \in Clients : ClientFindsEmpty(c)

SpecClients == InitClients /\ [][NextClients]_vars

\* ------------------------------------------------------- fair scheduling

\* A pass in which no handler fails for good and every handler that
\* succeeds returns credentials.
PassCredentials ==
    /\ Pass
    /\ \A h \in DOMAIN latest' :
          latest'[h].final => latest'[h].result # NoResult

\* One handler whose temporary failures end in credentials, the clients,
\* and an event loop that runs the authenticator whenever it can go on and
\* never cancels it.
InitLive == InitClients /\ handlers # <<>>

NextLive ==
    \/ StartBatch
    \/ PassCredentials
    \/ Sleep
    \/ PopulateVault
    \/ \E c \in Clients : ClientInvalidate(c)
    \/ \E c \in Clients : ClientFindsEmpty(c)

SpecLive ==
    /\ InitLive
    /\ [][NextLive]_vars
    /\ WF_vars(StartBatch)
    /\ WF_vars(PassCredentials)
    /\ WF_vars(Sleep)
    /\ WF_vars(PopulateVault)

\* One run of run_activity, for the first batch on an empty vault, with
\* handlers of every kind, on an event loop that runs every pass and ends
\* every sleep and never cancels; the batch has at most MaxRetries
\* temporary failures before its handlers resolve.
InitRun == Init /\ IsEmpty(vault)

NextRun ==
    \/ StartBatch
    \/ Pass
    \/ Sleep

SpecRun ==
    /\ InitRun
    /\ [][NextRun]_vars
    /\ WF_vars(Pass)
    /\ WF_vars(Sleep)

\* ------------------------------------------------------------ properties

TypeOK ==
    /\ pc \in {"wait", "tick", "sleep", "populate", "raised", "cancelled"}
    /\ passes \in Nat
    /\ retries \in 0 .. MaxRetries
    /\ started \in 0 .. MaxBatches

\* The final (latest) outcome of handler h carries an exception.
FinalFailure(h) == latest[h].exception # NoException

\* The final (latest) outcome of handler h is a success.
FinalSuccess(h) == latest[h].final /\ latest[h].exception = NoException

\* The results of the handlers' final outcomes, absent results left out.
FinalResults ==
    [h \in {x \in Range(handlers) : latest[x].result # NoResult} |->
        latest[h].result]

\* C1: a batch that left the loop raises ActivityError exactly when the
\* final outcome of at least one handler carries an exception; otherwise
\* it returns to authenticate with a result mapping.
C1_RaisesIffFinalFailure ==
    /\ pc = "raised" =>
          error.raised /\ \E h \in Range(handlers) : FinalFailure(h)
    /\ pc = "populate" =>
          ~error.raised /\ \A h \in Range(handlers) : FinalSuccess(h)
    /\ (started > 0 /\ Done(state)) => pc # "tick" /\ pc # "sleep"
    /\ (started > 0 /\ Done(state)
            /\ \A h \in Range(handlers) : FinalSuccess(h)) => pc # "raised"

\* C1: a handler failed temporarily, succeeded on its last invocation, and
\* the batch returned.
C1_Witness ==
    /\ pc = "populate"
    /\ \E h \in Range(handlers) : tries[h] >= 2 /\ FinalSuccess(h)

\* C2: the outcomes an ActivityError carries hold one entry for every
\* handler of the batch, the handler's latest outcome.
C2_ErrorCarriesAllOutcomes ==
    pc = "raised" =>
        /\ Len(error.outcomes) = Len(handlers)
        /\ Ids(error.outcomes) = Range(handlers)
        /\ \A i \in DOMAIN error.outcomes :
              error.outcomes[i].outcome = latest[error.outcomes[i].id]

\* C2: an ActivityError of a batch in which one handler succeeded after a
\* retry and another failed.
C2_Witness ==
    /\ pc = "raised"
    /\ \E h \in Range(handlers) : FinalSuccess(h) /\ tries[h] >= 2
    /\ \E h \in Range(handlers) : FinalFailure(h)

\* The pass in which the exception e was raised.
RaisedIn(e) == e[2]

\* C3 as claimed: no failing final outcome of the batch was produced in an
\* earlier pass than the one whose exception is the cause.
C3_CauseIsEarliest ==
    pc = "raised" =>
        \A i \in DOMAIN error.outcomes :
            error.outcomes[i].outcome.exception # NoException =>
                RaisedIn(error.cause)
                    <= RaisedIn(error.outcomes[i].outcome.exception)

\* C3 as amended: the cause is the exception of the first failing outcome
\* in the order of the outcome mapping, the order in which the handlers
\* got their first outcome.
C3_CauseIsFirstInMapping ==
    pc = "raised" =>
        \E i \in DOMAIN error.outcomes :
            /\ error.outcomes[i].outcome.exception = error.cause
            /\ error.cause # NoException
            /\ \A j \in 1 .. i - 1 :
                  error.outcomes[j].outcome.exception = NoException

\* C3: two handlers ended in failure and the cause was raised in a later
\* pass than the other failure.
C3_Witness ==
    /\ pc = "raised"
    /\ \E i \in DOMAIN error.outcomes :
          /\ error.outcomes[i].outcome.exception # NoException
          /\ RaisedIn(error.outcomes[i].outcome.exception)
                 < RaisedIn(error.cause)

\* C4: the mapping run_activity returns has exactly the handlers whose
\* final outcome has a result, each with that result.
C4_ReturnsFinalResults ==
    pc = "populate" => activity_results = FinalResults

\* C4: a batch returned after more than one pass, one handler with a
\* result and another without.
C4_Witness ==
    /\ pc = "populate"
    /\ passes >= 2
    /\ \E h \in Range(handlers) : latest[h].result # NoResult
    /\ \E h \in Range(handlers) : latest[h].result = NoResult

\* Every handler of a non-empty batch succeeded on the first pass.
AllSucceededAtOnce ==
    /\ handlers # <<>>
    /\ \A h \in Range(handlers) : tries[h] = 1 /\ FinalSuccess(h)

\* C5: when every handler of a non-empty batch succeeds on the first pass,
\* there is one pass, no sleep, and the results returned are those of the
\* handlers that have one.
C5_OnePassNoSleep ==
    AllSucceededAtOnce =>
        /\ passes = 1
        /\ sleeps = 0
        /\ pc \in {"populate", "wait", "cancelled"}
        /\ pc = "populate" => activity_results = FinalResults

\* C5: a batch of two handlers returned after both succeeded at once.
C5_Witness ==
    /\ AllSucceededAtOnce
    /\ Len(handlers) >= 2
    /\ pc = "populate"

\* The only handler of the batch failed temporarily twice and succeeded on
\* its third invocation.
ThirdTimeLucky ==
    /\ handlers = <<1>>
    /\ tries[1] = 3
    /\ FinalSuccess(1)

\* C6 as claimed: such a batch makes exactly three passes, whatever the
\* delays and the cap.
C6_ExactlyThreePasses ==
    ThirdTimeLucky => passes = 3

\* C6 as amended: such a batch returns the handler's final result after
\* three passes and one more pass for every sleep whose delay exceeded the
\* cap: three passes exactly when no delay exceeds the cap.
C6_ThreePassesPlusOverlong ==
    ThirdTimeLucky =>
        /\ passes = 3 + overlong
        /\ pc \in {"populate", "wait", "cancelled"}
        /\ pc = "populate" => activity_results = FinalResults

\* C6: such a batch returned credentials after more than three passes.
C6_Witness ==
    /\ ThirdTimeLucky
    /\ pc = "populate"
    /\ passes > 3
    /\ 1 \in DOMAIN activity_results

\* C7: the sleep awaited between two passes lasts min(state.delay, cap),
\* which is at most the cap.
C7_SleepIsCapped ==
    pc = "sleep" =>
        /\ limited_delay = Min(Delay(state, now), WAITING_KEEPALIVE_INTERVAL)
        /\ limited_delay <= WAITING_KEEPALIVE_INTERVAL
        /\ limited_delay > 0

\* C7: a sleep for a delay larger than the cap.
C7_Witness ==
    /\ pc = "sleep"
    /\ Delay(state, now) > WAITING_KEEPALIVE_INTERVAL

\* C8: a batch without handlers is over at once: no pass, no sleep, no
\* ActivityError, and the empty mapping is returned.
C8_EmptyBatchReturnsAtOnce ==
    (handlers = <<>> /\ started > 0) =>
        /\ Done(state)
        /\ passes = 0
        /\ sleeps = 0
        /\ ~error.raised
        /\ pc \in {"populate", "wait", "cancelled"}
        /\ pc = "populate" => activity_results = <<>>

\* C8: a batch without handlers returned.
C8_Witness ==
    /\ handlers = <<>>
    /\ started > 0
    /\ pc = "populate"

\* What the successful handlers of the batch retrieved, keyed as populate
\* takes it.
Retrieved == PopulateArg(FinalResults)

\* C9 as claimed: whatever the outcome of the batch, the vault gets what
\* was retrieved: after a batch in which some handlers retrieved
\* credentials and others failed, it holds the credentials retrieved.
C9_PopulatedWhateverTheOutcome ==
    (pc = "raised" /\ \E h \in Range(handlers) : latest[h].result # NoResult)
        => vault = Populate(Retrieved)

\* The batch is over and the final outcome of some handler is a failure.
BatchFailed ==
    /\ started > 0
    /\ Done(state)
    /\ \E h \in Range(handlers) : FinalFailure(h)

\* C10: the ActivityError of a failed batch leaves authenticate and
\* authenticator: populate is not called, the vault and the counter stay
\* as they were, and no other iteration follows.
C10_ActivityErrorEscapes ==
    [][/\ BatchFailed' =>
            /\ pc' = "raised"
            /\ vault' = vault
            /\ populated' = populated
            /\ counter' = counter
       /\ pc = "raised" =>
            /\ pc' = "raised"
            /\ started' = started
            /\ populated' = populated
            /\ vault' = vault]_vars

\* C10: an ActivityError escaped from a batch in which a handler had
\* retrieved credentials, and populate was not called for it.
C10_Witness ==
    /\ pc = "raised"
    /\ populated = started - 1
    /\ IsEmpty(vault)
    /\ \E h \in Range(handlers) : latest[h].result # NoResult

\* A batch is in progress: run_activity was called and has not returned.
InBatch == pc \in {"tick", "sleep"}

\* C11: a batch starts only from the wait for emptiness of the same
\* iteration, with no valid entry in the vault, and the vault holds none
\* for as long as the batch runs.
C11_BatchStartsOnEmptyVault ==
    /\ []((InBatch \/ pc = "populate") => IsEmpty(vault))
    /\ [][started' # started =>
            /\ pc = "wait"
            /\ IsEmpty(vault)
            /\ vault' = vault]_vars

\* C11: a batch runs that started after the credentials the vault held at
\* first had been invalidated.
C11_Witness ==
    /\ pc = "tick"
    /\ started = 1
    /\ counter = 1
    /\ IsEmpty(vault)

\* C12: a batch starts only when none is in progress, and a client that
\* invalidates credentials of an empty vault while a batch runs starts no
\* batch and leaves the running one as it is.
C12_OneBatchAtATime ==
    [][/\ started' # started => ~InBatch /\ pc = "wait"
       /\ (InBatch /\ waiting' # waiting) =>
            /\ started' = started
            /\ pc' = pc
            /\ state' = state
            /\ outcomes' = outcomes
            /\ vault' = vault]_vars

\* C12: every client has invalidated its credentials and waits, and the
\* batch under way is still the first.
C12_Witness ==
    /\ InBatch
    /\ passes >= 1
    /\ waiting = Clients
    /\ started = 1

\* What populate is to be called with: for every handler whose final
\* outcome has a result, that result under the handler's stringified id.
RetrievedKeys == {Str(h) : h \in {x \in Range(handlers) : latest[x].result # NoResult}}

\* C13: when authenticate returns, populate was called once in that call,
\* after the batch, and the vault holds exactly the results of the batch
\* under the handlers' stringified ids.
C13_PopulateOnceWithResults ==
    /\ [](pc \in {"wait", "populate"} =>
            populated = IF pc = "wait" THEN started ELSE started - 1)
    /\ [][populated' # populated =>
            /\ pc = "populate"
            /\ pc' = "wait"
            /\ populated' = populated + 1
            /\ Done(state)
            /\ DOMAIN vault' = RetrievedKeys
            /\ \A h \in Range(handlers) :
                  latest[h].result # NoResult =>
                      vault'[Str(h)] = latest[h].result]_vars

\* C13: the vault holds the credentials of two handlers, retrieved over
\* two passes.
C13_Witness ==
    /\ pc = "wait"
    /\ populated = started
    /\ passes = 2
    /\ sleeps = 1
    /\ DOMAIN vault = {Str(1), Str(2)}
    /\ vault[Str(1)] = Credentials(1)
    /\ vault[Str(2)] = Credentials(2)

CanAuthenticate == pc # "wait" \/ started < MaxBatches

\* C15: once the vault holds no valid entry, the authenticator is woken and
\* populates it with valid entries, and every client that waits for
\* credentials is woken.
C15_NoDeadlock ==
    /\ (IsEmpty(vault) /\ CanAuthenticate) ~> (~IsEmpty(vault) /\ waiting = {})
    /\ \A c \in Clients :
          (c \in waiting /\ CanAuthenticate) ~> (c \notin waiting)
    /\ [](waiting # {} => IsEmpty(vault))

\* C15: the vault, not empty at first, was emptied by its clients and
\* populated once since, and no client waits.
C15_Witness ==
    /\ pc = "wait"
    /\ counter = 2
    /\ populated = 1
    /\ ~IsEmpty(vault)
    /\ waiting = {}

\* A pass of the batch under way ends with this step.
PassEnds == passes' # passes /\ started' = started

\* C16 as claimed: a pass that ends with a state that is not done is
\* followed by a sleep of min(state.delay, cap), and a pass that ends with
\* a state that is done by the exit of the loop, without a sleep.
C16_SleepsUnlessDone ==
    [][PassEnds =>
          IF Done(state')
          THEN pc' \in {"populate", "raised"} /\ sleeps' = sleeps
          ELSE /\ pc' = "sleep"
               /\ sleeps' = sleeps + 1
               /\ limited_delay' =
                      Min(Delay(state', now'), WAITING_KEEPALIVE_INTERVAL)]_vars

\* C16 as amended: such a sleep follows when the state is not done and its
\* delay is positive; when the state is not done and has no delay or a
\* delay of zero, the next pass follows without a sleep.
C16_SleepsOnPositiveDelay ==
    [][PassEnds =>
          IF Done(state')
          THEN pc' \in {"populate", "raised"} /\ sleeps' = sleeps
          ELSE IF Delay(state', now') > 0
          THEN /\ pc' = "sleep"
               /\ sleeps' = sleeps + 1
               /\ limited_delay' =
                      Min(Delay(state', now'), WAITING_KEEPALIVE_INTERVAL)
          ELSE /\ pc' = "tick"
               /\ sleeps' = sleeps]_vars

\* C16: a pass ended with a handler to retry at once, and the next pass
\* is awaited without a sleep in between.
C16_Witness ==
    /\ pc = "tick"
    /\ passes = 1
    /\ sleeps = 0
    /\ ~Done(state)
    /\ Delay(state, now) = 0

\* Handler h has its final outcome: a success or a permanent failure.
Resolved(h) == h \in DOMAIN state /\ state[h].finished

\* The entry the accumulated outcomes outs hold for handler h.
Entry(outs, h) == outs[OutcomeOf(outs, h)]

\* C17: within a batch, a handler that has succeeded or failed for good is
\* not invoked again and keeps its entry in the State and in the
\* accumulated outcomes; a State that is done stays done.
C17_ResolvedStaysResolved ==
    [][(started' = started /\ started > 0) =>
          /\ \A h \in Range(handlers) :
                Resolved(h) =>
                    /\ tries'[h] = tries[h]
                    /\ latest'[h] = latest[h]
                    /\ state'[h] = state[h]
                    /\ h \in Ids(outcomes')
                    /\ Entry(outcomes', h) = Entry(outcomes, h)
          /\ Done(state) => Done(state')]_vars

\* C17: one handler had its final outcome in the first pass, and another
\* was invoked again in a later pass.
C17_Witness ==
    /\ passes >= 2
    /\ \E h \in Range(handlers) : Resolved(h) /\ tries[h] = 1
    /\ \E h \in Range(handlers) : tries[h] >= 2

\* The outcomes of every pass so far are recorded whole: a handler that
\* was invoked has its latest outcome in the accumulated outcomes and in
\* the State, a handler that was not is in neither.
RecordedWhole ==
    \A h \in Range(handlers) :
        IF tries[h] = 0
        THEN /\ h \notin Ids(outcomes)
             /\ state[h] = FromScratch(handlers)[h]
        ELSE /\ h \in Ids(outcomes)
             /\ Entry(outcomes, h).outcome = latest[h]
             /\ state[h].finished = latest[h].final
             /\ (state[h].delayed = NoTime) = (latest[h].delay = NoDelay)

\* C18: a cancellation at a suspension point leaves what was recorded as
\* it is, the outcomes of a pass are recorded for all of its handlers in
\* the outcomes and in the State or for none, and the vault is populated
\* with all the results or not at all.
C18_CancelLeavesNothingHalfDone ==
    /\ [](started > 0 => RecordedWhole)
    /\ []((pc = "cancelled" /\ populated < started) => IsEmpty(vault))
    /\ [][/\ (pc' = "cancelled" /\ pc # "cancelled") =>
               UNCHANGED <<state, outcomes, vault, tries, latest, populated>>
          /\ populated' # populated => DOMAIN vault' = RetrievedKeys]_vars

\* C18: the authenticator was cancelled between two passes of a batch.
C18_Witness ==
    /\ pc = "cancelled"
    /\ passes >= 1
    /\ ~Done(state)

\* C19: when every handler resolves after finitely many temporary
\* failures, run_activity returns or raises; and after every step of a
\* batch, whatever the number of passes and the time elapsed, it goes on
\* exactly when its State is not done.
C19_TerminatesWhenHandlersResolve ==
    /\ InBatch ~> (pc \in {"populate", "raised"})
    /\ [][(started' > 0 /\ (InBatch \/ started' # started)) =>
             (pc' \in {"tick", "sleep"}) = ~Done(state')]_vars

\* C19: run_activity has raised after as many temporary failures as a
\* batch can have, a sleep between the passes.
C19_Witness ==
    /\ pc = "raised"
    /\ retries = MaxRetries
    /\ passes = MaxRetries + 1
    /\ sleeps >= 1

\* The batch that was started last has returned to authenticate with no
\* results: it had no handlers, or none of them returned a result.
ReturnedEmpty == started > 0 /\ FinalResults = <<>>

\* C20: populating with the empty results of a batch leaves the vault
\* empty, and then the authenticator's wait for emptiness is over at once:
\* the next batch can start with no step of anyone in between, after the
\* first batch as after every later one.
C20_EmptyResultsStartNextBatch ==
    /\ []((pc = "wait" /\ populated = started /\ ReturnedEmpty) =>
             /\ IsEmpty(vault)
             /\ started < MaxBatches => ENABLED StartBatch)
    /\ [][(pc = "populate" /\ populated' # populated /\ ReturnedEmpty) =>
             /\ IsEmpty(vault')
             /\ vault' = vault
             /\ pc' = "wait"]_vars
    /\ [][(started' # started /\ ReturnedEmpty /\ populated = started) =>
             IsEmpty(vault) /\ vault' = vault]_vars

\* C20: the second batch in a row of handlers that return no result has
\* been populated, each batch started on the still empty vault.
C20_Witness ==
    /\ pc = "wait"
    /\ handlers # <<>>
    /\ passes >= 1
    /\ started = 2
    /\ populated = 2
    /\ counter = 2
    /\ ReturnedEmpty
    /\ IsEmpty(vault)

====
